---- MODULE Spec2Model ----
(***************************************************************************)
(* Model of the /proxy endpoint of remote_http_agent_rs: the axum handler  *)
(* main_handler (src/src/main.rs), the forwarding pipeline proxy_handler   *)
(* with its redirect rewriting (src/src/proxy.rs), the header translators  *)
(* (src/src/headers.rs) and the bearer check (src/src/auth.rs).            *)
(*                                                                         *)
(* Strings are sequences of one-character strings, so that prefix tests,   *)
(* trimming, lowercasing, concatenation and percent-encoding are computed  *)
(* the way the code computes them.  A header map is a sequence of          *)
(* <<name, value>> entries; names are stored lowercased, as the http       *)
(* crate's HeaderName stores them.                                         *)
(***************************************************************************)
EXTENDS Integers, Sequences, FiniteSets, TLC

VARIABLES
    token,      \* AppConfig.token: the configured credential
    pc,         \* "idle" | "received" | "forwarding" | "done"
    req,        \* the inbound request as the server layer hands it over
    auth,       \* "unchecked" | "pass" | "fail": result of valid_bearer in main_handler
    frame,      \* locals of main_handler/proxy_handler kept across send().await
    fwd,        \* the forwarded calls issued to the origin, in order
    originResp, \* the origin's reply to the forwarded call, or NoResponse
    resp        \* the response returned to the client, or NoResponse

vars == <<token, pc, req, auth, frame, fwd, originResp, resp>>

-----------------------------------------------------------------------------
(* Evaluation helpers                                                      *)

\* F at the value of v: a let that evaluates v once, where it is bound.
Strict(v, F(_)) == CHOOSE r \in {F(x) : x \in {v}} : TRUE

Strict2(a, b, F(_, _)) == CHOOSE r \in {F(x, y) : x \in {a}, y \in {b}} : TRUE

-----------------------------------------------------------------------------
(* Characters and strings                                                  *)

\* The grave accent (0x60), which a TLA+ string literal cannot hold.
GRAVE == "0x60"

\* Printable ASCII, 0x20 .. 0x7E, in code order.
Ascii ==
  << " ", "!", "\"", "#", "$", "%", "&", "'", "(", ")", "*", "+", ",", "-", ".", "/",
     "0", "1", "2", "3", "4", "5", "6", "7", "8", "9", ":", ";", "<", "=", ">", "?",
     "@", "A", "B", "C", "D", "E", "F", "G", "H", "I", "J", "K", "L", "M", "N", "O",
     "P", "Q", "R", "S", "T", "U", "V", "W", "X", "Y", "Z", "[", "\\", "]", "^", "_",
     GRAVE, "a", "b", "c", "d", "e", "f", "g", "h", "i", "j", "k", "l", "m", "n", "o",
     "p", "q", "r", "s", "t", "u", "v", "w", "x", "y", "z", "{", "|", "}", "~" >>

AsciiSet == {Ascii[i] : i \in DOMAIN Ascii}

\* A byte >= 0x80 in a header value (obs-text): legal on the wire, not visible ASCII.
OBS == "0xE9"

TAB == "\t"

\* The byte value of a printable ASCII character.
CodeOf == [c \in AsciiSet |-> 31 + (CHOOSE i \in DOMAIN Ascii : Ascii[i] = c)]

CharOf(code) == Ascii[code - 31]

IsUpper(c) == c \in AsciiSet /\ CodeOf[c] >= 65 /\ CodeOf[c] <= 90

IsAlpha(c) == c \in AsciiSet /\ ((CodeOf[c] >= 65 /\ CodeOf[c] <= 90) \/ (CodeOf[c] >= 97 /\ CodeOf[c] <= 122))

IsDigit(c) == c \in AsciiSet /\ CodeOf[c] >= 48 /\ CodeOf[c] <= 57

\* char::to_ascii_lowercase; on the ASCII inputs of this model str::to_lowercase agrees.
ToLowerChar(c) == IF IsUpper(c) THEN CharOf(CodeOf[c] + 32) ELSE c

ToLower(s) == Strict(s, LAMBDA t : [i \in 1..Len(t) |-> ToLowerChar(t[i])])

StartsWith(s, p) == Strict2(s, p, LAMBDA t, q : Len(t) >= Len(q) /\ SubSeq(t, 1, Len(q)) = q)

DropFirst(s, n) == Strict(s, LAMBDA t : SubSeq(t, n + 1, Len(t)))

\* str::eq_ignore_ascii_case
EqIgnoreAsciiCase(a, b) == ToLower(a) = ToLower(b)

IsWhitespace(c) == c \in {" ", TAB}

RECURSIVE TrimStart(_)
TrimStart(s) == IF s # <<>> /\ IsWhitespace(s[1]) THEN TrimStart(Tail(s)) ELSE s

RECURSIVE TrimEnd(_)
TrimEnd(s) == IF s # <<>> /\ IsWhitespace(s[Len(s)]) THEN TrimEnd(SubSeq(s, 1, Len(s) - 1)) ELSE s

\* str::trim
Trim(s) == Strict(s, LAMBDA t : Strict(TrimStart(t), LAMBDA u : TrimEnd(u)))

RECURSIVE TrimStartMatches(_, _)
TrimStartMatches(s, c) == IF s # <<>> /\ s[1] = c THEN TrimStartMatches(Tail(s), c) ELSE s

RECURSIVE TrimEndMatches(_, _)
TrimEndMatches(s, c) == IF s # <<>> /\ s[Len(s)] = c THEN TrimEndMatches(SubSeq(s, 1, Len(s) - 1), c) ELSE s

\* Position of the first character of s that is in cs, 0 when there is none.
IndexOfAny(s, cs) ==
    Strict(s, LAMBDA t :
        IF \E i \in 1..Len(t) : t[i] \in cs
        THEN CHOOSE i \in 1..Len(t) : t[i] \in cs /\ \A j \in 1..(i - 1) : t[j] \notin cs
        ELSE 0)

\* Position of the last occurrence of c in s, 0 when there is none.
LastIndexOf(s, c) ==
    Strict(s, LAMBDA t :
        IF \E i \in 1..Len(t) : t[i] = c
        THEN CHOOSE i \in 1..Len(t) : t[i] = c /\ \A j \in (i + 1)..Len(t) : t[j] # c
        ELSE 0)

Digits == <<"0","1","2","3","4","5","6","7","8","9">>

\* u16::to_string
RECURSIVE ToDecimal(_)
ToDecimal(n) == IF n < 10 THEN <<Digits[n + 1]>> ELSE ToDecimal(n \div 10) \o <<Digits[(n % 10) + 1]>>

HexDigits == <<"0","1","2","3","4","5","6","7","8","9","A","B","C","D","E","F">>

IsUnreserved(c) == IsAlpha(c) \/ IsDigit(c) \/ c \in {"-", "_", ".", "~"}

\* urlencoding::encode: every byte but the unreserved ones becomes %XX.
RECURSIVE UrlEncode(_)
UrlEncode(s) ==
    IF s = <<>> THEN <<>>
    ELSE (IF IsUnreserved(s[1]) THEN <<s[1]>>
          ELSE <<"%", HexDigits[(CodeOf[s[1]] \div 16) + 1], HexDigits[(CodeOf[s[1]] % 16) + 1]>>)
         \o UrlEncode(Tail(s))

\* HeaderValue::to_str: Some only when every byte is visible ASCII (or tab).
ToStrOk(v) == Strict(v, LAMBDA t : \A i \in 1..Len(t) : t[i] \in AsciiSet \/ t[i] = TAB)

-----------------------------------------------------------------------------
(* Header maps (http::HeaderMap)                                           *)

EmptyHeaders == <<>>

\* HeaderName::from_bytes / IntoHeaderName: names are stored lowercased.
HName(n) == ToLower(n)

HNames(h) == Strict(h, LAMBDA t : {t[i][1] : i \in 1..Len(t)})

HContains(h, n) == HName(n) \in HNames(h)

\* All values of the name, in insertion order (HeaderMap::get_all).
HValues(h, n) ==
    Strict2(h, HName(n), LAMBDA t, name :
        Strict(SelectSeq(t, LAMBDA e : e[1] = name), LAMBDA sel : [i \in 1..Len(sel) |-> sel[i][2]]))

\* HeaderMap::get(n).unwrap(): the first value of a name that is present.
HFirst(h, n) == HValues(h, n)[1]

\* HeaderMap::append: adds a value, keeping those already there.
HAppend(h, n, v) == Append(h, <<HName(n), v>>)

\* HeaderMap::remove: removes every value of the name.
HRemove(h, n) == Strict(HName(n), LAMBDA name : SelectSeq(h, LAMBDA e : e[1] # name))

\* HeaderMap::insert: the name keeps its place and gets exactly this one value.
HInsert(h, n, v) ==
    Strict2(h, HName(n), LAMBDA t, name :
        IF \E i \in 1..Len(t) : t[i][1] = name
        THEN Strict(CHOOSE i \in 1..Len(t) : t[i][1] = name /\ \A j \in 1..(i - 1) : t[j][1] # name,
                    LAMBDA first : SubSeq(t, 1, first - 1) \o << <<name, v>> >>
                                   \o SelectSeq(SubSeq(t, first + 1, Len(t)), LAMBDA e : e[1] # name))
        ELSE Append(t, <<name, v>>))

\* HeaderMap::iter: names in order of first insertion, each with all its values.
RECURSIVE HIter(_)
HIter(h) ==
    Strict(h, LAMBDA t :
        IF t = <<>> THEN <<>>
        ELSE SelectSeq(t, LAMBDA e : e[1] = t[1][1]) \o HIter(SelectSeq(t, LAMBDA e : e[1] # t[1][1])))

RECURSIVE InsertEach(_, _)
InsertEach(dst, entries) ==
    IF entries = <<>> THEN dst
    ELSE Strict(HInsert(dst, entries[1][1], entries[1][2]), LAMBDA d : InsertEach(d, Tail(entries)))

\* for (key, value) in src.iter() { dst.insert(key, value.clone()) }
InsertAll(dst, src) == Strict(HIter(src), LAMBDA entries : InsertEach(dst, entries))

RECURSIVE AppendEach(_, _)
AppendEach(dst, entries) ==
    IF entries = <<>> THEN dst
    ELSE Strict(HAppend(dst, entries[1][1], entries[1][2]), LAMBDA d : AppendEach(d, Tail(entries)))

\* The header map the server layer builds from the header lines on the wire.
FromWire(lines) == Strict(lines, LAMBDA entries : AppendEach(EmptyHeaders, entries))

-----------------------------------------------------------------------------
(* auth.rs                                                                 *)

BEARER_PREFIX == <<"B","e","a","r","e","r"," ">>

\* Mutant: the scheme is compared case-sensitively.
valid_bearer_case_sensitive(authorization_header, auth_key) ==
    Strict(authorization_header, LAMBDA header :
        IF ~StartsWith(header, BEARER_PREFIX)
        THEN FALSE
        ELSE Trim(DropFirst(header, Len(BEARER_PREFIX))) = auth_key)

valid_bearer(authorization_header, auth_key) ==
    Strict(authorization_header, LAMBDA header :
        IF ~StartsWith(ToLower(header), ToLower(BEARER_PREFIX))
        THEN FALSE
        ELSE Trim(DropFirst(header, Len(BEARER_PREFIX))) = auth_key)

-----------------------------------------------------------------------------
(* headers.rs                                                              *)

TUN_PREFIX == <<"t","u","n","-">>

\* Mutant: the whitelist also lets the client's cookies through.
default_forward_headers_with_cookie ==
    { <<"c","o","n","t","e","n","t","-","t","y","p","e">>, <<"c","o","n","t","e","n","t","-","l","e","n","g","t","h">>, <<"u","s","e","r","-","a","g","e","n","t">>, <<"a","c","c","e","p","t">>,
      <<"a","c","c","e","p","t","-","e","n","c","o","d","i","n","g">>, <<"k","e","e","p","-","a","l","i","v","e">>, <<"c","o","o","k","i","e">> }

default_forward_headers ==
    { <<"c","o","n","t","e","n","t","-","t","y","p","e">>, <<"c","o","n","t","e","n","t","-","l","e","n","g","t","h">>, <<"u","s","e","r","-","a","g","e","n","t">>, <<"a","c","c","e","p","t">>,
      <<"a","c","c","e","p","t","-","e","n","c","o","d","i","n","g">>, <<"k","e","e","p","-","a","l","i","v","e">> }

\* Mutant: only the allow-origin header is recognised.
is_cors_header_allow_origin_only(header) ==
    ToLower(header) = <<"a","c","c","e","s","s","-","c","o","n","t","r","o","l","-","a","l","l","o","w","-","o","r","i","g","i","n">>

is_cors_header(header) == StartsWith(ToLower(header), <<"a","c","c","e","s","s","-","c","o","n","t","r","o","l","-">>)

\* name_str.len() > TUN_PREFIX.len() && name_str[..TUN_PREFIX.len()].eq_ignore_ascii_case(TUN_PREFIX)
is_tun_header(name_str) ==
    /\ Len(name_str) > Len(TUN_PREFIX)
    /\ EqIgnoreAsciiCase(SubSeq(name_str, 1, Len(TUN_PREFIX)), TUN_PREFIX)

\* First loop of copy_request_headers: the de-prefixed names of all tun- headers.
tun_headers(source_headers) ==
    Strict(HNames(source_headers), LAMBDA names :
        { ToLower(DropFirst(n, Len(TUN_PREFIX))) : n \in {m \in names : is_tun_header(m)} })

\* tchar of RFC 9110: what HeaderName::from_bytes accepts.
IsHeaderName(n) ==
    Strict(n, LAMBDA t :
        /\ t # <<>>
        /\ \A i \in 1..Len(t) :
              IsAlpha(t[i]) \/ IsDigit(t[i])
              \/ t[i] \in {"!", "#", "$", "%", "&", "'", "*", "+", "-", ".", "^", "_", GRAVE, "|", "~"})

\* HeaderValue::from_bytes: any byte but the control characters (tab allowed).
IsHeaderValue(v) == Strict(v, LAMBDA t : \A i \in 1..Len(t) : t[i] \in AsciiSet \/ t[i] \in {TAB, OBS})

\* Mutant: a whitelisted header is forwarded even when its tun- form is present.
request_header_key_no_override(name_str, tun) ==
    IF ~is_tun_header(name_str) /\ ToLower(name_str) \notin default_forward_headers
    THEN <<>>
    ELSE IF is_tun_header(name_str)
         THEN <<DropFirst(name_str, Len(TUN_PREFIX))>>
         ELSE <<name_str>>

\* Body of the second loop of copy_request_headers up to new_key:
\* <<>> when the header is skipped (continue), <<new_key>> otherwise.
request_header_key(name_str, tun) ==
    IF ~is_tun_header(name_str) /\ ToLower(name_str) \notin default_forward_headers
    THEN <<>>
    ELSE IF is_tun_header(name_str)
         THEN <<DropFirst(name_str, Len(TUN_PREFIX))>>
         ELSE IF ToLower(name_str) \in tun
              THEN <<>>
              ELSE <<name_str>>

RECURSIVE copy_request_loop(_, _, _)
copy_request_loop(entries, tun, target_headers) ==
    IF entries = <<>> THEN target_headers
    ELSE Strict2(request_header_key(entries[1][1], tun), entries[1][2], LAMBDA key, value :
             Strict(IF key # <<>> /\ IsHeaderName(key[1]) /\ IsHeaderValue(value)
                    THEN HAppend(target_headers, key[1], value)
                    ELSE target_headers,
                    LAMBDA appended : copy_request_loop(Tail(entries), tun, appended)))

copy_request_headers(source_headers) ==
    Strict2(HIter(source_headers), tun_headers(source_headers), LAMBDA entries, tun :
        copy_request_loop(entries, tun, EmptyHeaders))

\* (300..400).contains(&status_code)
is_redirect(status_code) == status_code >= 300 /\ status_code < 400

\* Mutant: the origin's cookies keep their name.
response_header_key_keep_cookie(name_str) == name_str

\* Set-Cookie is renamed, every other name is kept.
response_header_key(name_str) ==
    IF EqIgnoreAsciiCase(name_str, <<"s","e","t","-","c","o","o","k","i","e">>) THEN <<"t","u","n","-","s","e","t","-","c","o","o","k","i","e">> ELSE name_str

\* Mutant: a header replaces the values already copied under its name.
add_response_header_replacing(target_headers, header_key, value) ==
    IF IsHeaderName(header_key) /\ IsHeaderValue(value)
    THEN HInsert(target_headers, header_key, value)
    ELSE target_headers

\* copy_response_headers, lines 108-113: append when name and value convert.
add_response_header(target_headers, header_key, value) ==
    IF IsHeaderName(header_key) /\ IsHeaderValue(value)
    THEN HAppend(target_headers, header_key, value)
    ELSE target_headers

RECURSIVE copy_response_loop(_, _)
copy_response_loop(entries, target_headers) ==
    IF entries = <<>> THEN target_headers
    ELSE Strict2(entries[1][1], entries[1][2], LAMBDA name_str, value :
             Strict(IF is_cors_header(name_str) THEN target_headers
                    ELSE Strict(response_header_key(name_str), LAMBDA header_key :
                             add_response_header(target_headers, header_key, value)),
                    LAMBDA appended : copy_response_loop(Tail(entries), appended)))

copy_response_headers(source_headers, target_headers, status_code) ==
    Strict2(HIter(source_headers),
            IF is_redirect(status_code)
            THEN HInsert(target_headers, <<"t","u","n","-","s","t","a","t","u","s">>, ToDecimal(status_code))
            ELSE target_headers,
            LAMBDA entries, target : copy_response_loop(entries, target))

-----------------------------------------------------------------------------
(* url::Url, as proxy.rs uses it                                           *)

\* Schemes the URL standard calls special ("file", with its own host rules, is
\* not among the inputs of this model).
SpecialSchemes == { <<"h","t","t","p">>, <<"h","t","t","p","s">>, <<"w","s">>, <<"w","s","s">>, <<"f","t","p">> }

DefaultPort(scheme) ==
    IF scheme \in { <<"h","t","t","p">>, <<"w","s">> } THEN <<"8","0">>
    ELSE IF scheme \in { <<"h","t","t","p","s">>, <<"w","s","s">> } THEN <<"4","4","3">>
    ELSE IF scheme = <<"f","t","p">> THEN <<"2","1">>
    ELSE <<>>

ParseError == [ok |-> FALSE, scheme |-> <<>>, hasAuthority |-> FALSE, userinfo |-> <<>>,
               host |-> <<>>, port |-> <<>>, cannotBeABase |-> FALSE, path |-> <<>>,
               hasQuery |-> FALSE, query |-> <<>>, hasFragment |-> FALSE, fragment |-> <<>>]

\* s up to (not including) position i; all of s when i = 0.
Before(s, i) == IF i = 0 THEN s ELSE SubSeq(s, 1, i - 1)

\* s after position i; empty when i = 0.
After(s, i) == IF i = 0 THEN <<>> ELSE DropFirst(s, i)

IsSchemeChar(c) == IsAlpha(c) \/ IsDigit(c) \/ c \in {"+", "-", "."}

RECURSIVE SkipSlashes(_)
SkipSlashes(s) == IF s # <<>> /\ s[1] \in {"/", "\\"} THEN SkipSlashes(Tail(s)) ELSE s

\* Code points a host may not contain (the ones the inputs of this model can hold).
ForbiddenHostChars == {" ", "<", ">", "^", "|", "%", "[", "]"}

\* The path, query and fragment of `tail`, put into the URL record u.
WithPathQueryFragment(u, special, tail0) ==
    Strict(tail0, LAMBDA tail :
    Strict(IndexOfAny(tail, {"?", "#"}), LAMBDA qf :
    Strict2(Before(tail, qf), IF qf = 0 THEN <<>> ELSE DropFirst(tail, qf - 1), LAMBDA rawPath, afterPath :
    Strict2(afterPath # <<>> /\ afterPath[1] = "?", IndexOfAny(afterPath, {"#"}), LAMBDA hasQuery, hash :
        [u EXCEPT !.path = IF special /\ rawPath = <<>> THEN <<"/">> ELSE rawPath,
                  !.hasQuery = hasQuery,
                  !.query = IF hasQuery THEN Before(Tail(afterPath), IndexOfAny(Tail(afterPath), {"#"})) ELSE <<>>,
                  !.hasFragment = hash # 0,
                  !.fragment = After(afterPath, hash)]))))

\* The authority (userinfo@host:port) and what follows it.
ParseAuthority(scheme, special, authority0, tail) ==
    Strict(authority0, LAMBDA authority :
    Strict(LastIndexOf(authority, "@"), LAMBDA at :
    Strict(IF at = 0 THEN authority ELSE After(authority, at), LAMBDA hostport :
    Strict(LastIndexOf(hostport, ":"), LAMBDA pcolon :
    Strict2(Before(hostport, pcolon), After(hostport, pcolon), LAMBDA rawHost, rawPort :
        IF \/ \E i \in 1..Len(rawPort) : ~IsDigit(rawPort[i])
           \/ special /\ rawHost = <<>>
           \/ \E i \in 1..Len(rawHost) : rawHost[i] \in ForbiddenHostChars
        THEN ParseError
        ELSE WithPathQueryFragment(
                 [ParseError EXCEPT !.ok = TRUE,
                                    !.scheme = scheme,
                                    !.hasAuthority = TRUE,
                                    !.userinfo = IF at = 0 THEN <<>> ELSE Before(authority, at),
                                    !.host = IF special THEN ToLower(rawHost) ELSE rawHost,
                                    !.port = IF rawPort = DefaultPort(scheme) THEN <<>> ELSE rawPort],
                 special, tail))))))

\* What follows "scheme:".
ParseAfterScheme(scheme0, rest0) ==
    Strict2(scheme0, rest0, LAMBDA scheme, rest :
        IF scheme \in SpecialSchemes \/ StartsWith(rest, <<"/","/">>)
        THEN Strict2(scheme \in SpecialSchemes,
                     IF scheme \in SpecialSchemes THEN SkipSlashes(rest) ELSE DropFirst(rest, 2),
                     LAMBDA special, afterSlashes :
                 Strict(IndexOfAny(afterSlashes, IF special THEN {"/", "\\", "?", "#"} ELSE {"/", "?", "#"}),
                        LAMBDA authEnd :
                     ParseAuthority(scheme, special, Before(afterSlashes, authEnd),
                                    IF authEnd = 0 THEN <<>> ELSE DropFirst(afterSlashes, authEnd - 1))))
        ELSE WithPathQueryFragment(
                 [ParseError EXCEPT !.ok = TRUE, !.scheme = scheme,
                                    !.cannotBeABase = ~StartsWith(rest, <<"/">>)],
                 FALSE, rest))

\* Url::parse, for an input without a base URL: scheme, then for a special scheme
\* an authority after any run of slashes; for another scheme an authority only
\* after "//", a path after "/", and otherwise an opaque (cannot-be-a-base) path.
ParseUrl(input) ==
    Strict(Trim(input), LAMBDA s :
    Strict(IndexOfAny(s, {":"}), LAMBDA colon :
        IF ~(colon > 1 /\ IsAlpha(s[1]) /\ \A i \in 2..(colon - 1) : IsSchemeChar(s[i]))
        THEN ParseError
        ELSE ParseAfterScheme(ToLower(SubSeq(s, 1, colon - 1)), DropFirst(s, colon))))

\* Url::to_string (the serialization)
UrlToString(url) ==
    Strict(url, LAMBDA u :
    u.scheme \o <<":">>
    \o (IF u.hasAuthority
        THEN <<"/","/">> \o (IF u.userinfo # <<>> THEN u.userinfo \o <<"@">> ELSE <<>>)
             \o u.host \o (IF u.port # <<>> THEN <<":">> \o u.port ELSE <<>>)
        ELSE <<>>)
    \o u.path
    \o (IF u.hasQuery THEN <<"?">> \o u.query ELSE <<>>)
    \o (IF u.hasFragment THEN <<"#">> \o u.fragment ELSE <<>>))

\* Url::set_path("/"): on a cannot-be-a-base URL the slash is stored escaped.
SetPathRoot(url) == Strict(url, LAMBDA u : [u EXCEPT !.path = IF u.cannotBeABase THEN <<"%","2","F">> ELSE <<"/">>])

\* Url::set_query(None)
SetQueryNone(u) == [u EXCEPT !.hasQuery = FALSE, !.query = <<>>]

-----------------------------------------------------------------------------
(* proxy.rs                                                                *)

PROXY_PATH == <<"/","p","r","o","x","y">>

\* Result<String, url::ParseError> as [ok, value].
parse_origin_url(url_string) ==
    Strict(ParseUrl(url_string), LAMBDA parsed :
        IF ~parsed.ok THEN [ok |-> FALSE, value |-> <<>>]
        ELSE [ok |-> TRUE,
              value |-> Strict(UrlToString(SetQueryNone(SetPathRoot(parsed))),
                               LAMBDA rendered : TrimEndMatches(rendered, "/"))])

\* Mutant: the location is put into the query string as it is.
build_proxy_url_unencoded(uri) == PROXY_PATH \o <<"?","u","r","l","=">> \o uri

build_proxy_url(uri) == PROXY_PATH \o <<"?","u","r","l","=">> \o UrlEncode(uri)

\* Mutant: only https:// counts as a full URL.
is_full_url_https_only(uri) == StartsWith(uri, <<"h","t","t","p","s",":","/","/">>)

is_full_url(uri) == StartsWith(uri, <<"h","t","t","p",":","/","/">>) \/ StartsWith(uri, <<"h","t","t","p","s",":","/","/">>)

is_absolute_path(uri) == StartsWith(uri, <<"/">>)

\* Mutant: a relative path is glued to the origin without a separator.
resolve_location_no_separator(raw_location, origin) ==
        IF StartsWith(raw_location, <<"/","/">>)
        THEN Strict(ParseUrl(origin), LAMBDA origin_url :
                 IF origin_url.ok /\ origin_url.scheme # <<>>
                 THEN origin_url.scheme \o <<":">> \o raw_location
                 ELSE raw_location)
        ELSE IF ~is_full_url(raw_location)
             THEN origin \o raw_location
             ELSE raw_location

\* modify_location, lines 52-72: the absolute form of the trimmed Location value.
resolve_location(raw_location, origin) ==
        IF StartsWith(raw_location, <<"/","/">>)
        THEN Strict(ParseUrl(origin), LAMBDA origin_url :
                 IF origin_url.ok /\ origin_url.scheme # <<>>
                 THEN origin_url.scheme \o <<":">> \o raw_location
                 ELSE raw_location)
        ELSE IF ~is_full_url(raw_location)
             THEN (IF is_absolute_path(raw_location)
                   THEN origin \o raw_location
                   ELSE origin \o <<"/">> \o TrimStartMatches(raw_location, "/"))
             ELSE raw_location

modify_location(headers, origin) ==
    Strict(headers, LAMBDA response_headers :
    IF ~HContains(response_headers, <<"l","o","c","a","t","i","o","n">>) THEN response_headers
    ELSE IF ~ToStrOk(HFirst(response_headers, <<"l","o","c","a","t","i","o","n">>)) THEN response_headers
    ELSE Strict(Trim(HFirst(response_headers, <<"l","o","c","a","t","i","o","n">>)), LAMBDA raw_location :
         IF raw_location = <<>> THEN response_headers
         ELSE Strict(resolve_location(raw_location, origin), LAMBDA location :
              Strict2(build_proxy_url(location), HRemove(response_headers, <<"l","o","c","a","t","i","o","n">>),
                      LAMBDA location_proxy, removed :
              Strict(IF IsHeaderValue(location)
                     THEN HInsert(removed, <<"t","u","n","-","L","o","c","a","t","i","o","n">>, location)
                     ELSE removed,
                     LAMBDA withLocation :
                  IF IsHeaderValue(location_proxy)
                  THEN HInsert(withLocation, <<"t","u","n","-","L","o","c","a","t","i","o","n","-","P","r","o","x","y">>, location_proxy)
                  ELSE withLocation)))))

\* Mutant: a redirect keeps the origin's status.
final_status_unchanged(status_code) == status_code

\* proxy_handler, lines 149-157 (reqwest only yields codes StatusCode accepts).
final_status(status_code) == IF is_redirect(status_code) THEN 200 ELSE status_code

\* proxy_handler, lines 115-124: the method of the forwarded call.
reqwest_method(method) ==
    IF method \in {"GET", "POST", "PUT", "DELETE", "HEAD", "OPTIONS", "PATCH"} THEN method ELSE "GET"

\* add_cors_headers, lines 181-184
cors_allow_origin(request_headers) ==
    IF HContains(request_headers, <<"o","r","i","g","i","n">>) /\ ToStrOk(HFirst(request_headers, <<"o","r","i","g","i","n">>))
    THEN HFirst(request_headers, <<"o","r","i","g","i","n">>)
    ELSE <<"*">>

\* add_cors_headers, lines 196-200
cors_allow_headers(request_headers) ==
    IF /\ HContains(request_headers, <<"a","c","c","e","s","s","-","c","o","n","t","r","o","l","-","r","e","q","u","e","s","t","-","h","e","a","d","e","r","s">>)
       /\ ToStrOk(HFirst(request_headers, <<"a","c","c","e","s","s","-","c","o","n","t","r","o","l","-","r","e","q","u","e","s","t","-","h","e","a","d","e","r","s">>))
       /\ HFirst(request_headers, <<"a","c","c","e","s","s","-","c","o","n","t","r","o","l","-","r","e","q","u","e","s","t","-","h","e","a","d","e","r","s">>) # <<>>
    THEN HFirst(request_headers, <<"a","c","c","e","s","s","-","c","o","n","t","r","o","l","-","r","e","q","u","e","s","t","-","h","e","a","d","e","r","s">>)
    ELSE <<"*">>

add_cors_headers(response_headers, request_headers) ==
    LET h1 == HInsert(response_headers, <<"A","c","c","e","s","s","-","C","o","n","t","r","o","l","-","A","l","l","o","w","-","O","r","i","g","i","n">>, cors_allow_origin(request_headers))
        h2 == HInsert(h1, <<"A","c","c","e","s","s","-","C","o","n","t","r","o","l","-","A","l","l","o","w","-","M","e","t","h","o","d","s">>, <<"*">>)
        h3 == HInsert(h2, <<"A","c","c","e","s","s","-","C","o","n","t","r","o","l","-","A","l","l","o","w","-","H","e","a","d","e","r","s">>, cors_allow_headers(request_headers))
        h4 == HInsert(h3, <<"A","c","c","e","s","s","-","C","o","n","t","r","o","l","-","M","a","x","-","A","g","e">>, <<"8","6","4","0","0">>)
        h5 == HInsert(h4, <<"A","c","c","e","s","s","-","C","o","n","t","r","o","l","-","A","l","l","o","w","-","C","r","e","d","e","n","t","i","a","l","s">>, <<"t","r","u","e">>)
    IN  HInsert(h5, <<"A","c","c","e","s","s","-","C","o","n","t","r","o","l","-","E","x","p","o","s","e","-","H","e","a","d","e","r","s">>,
                <<"t","u","n","-","L","o","c","a","t","i","o","n",","," ","t","u","n","-","L","o","c","a","t","i","o","n","-","P","r","o","x","y",","," ","t","u","n","-","s","e","t","-","c","o","o","k","i","e",","," ","t","u","n","-","s","t","a","t","u","s">>)

add_cache_control_headers(response_headers) ==
    LET h1 == HInsert(response_headers, <<"C","a","c","h","e","-","C","o","n","t","r","o","l">>,
                      <<"n","o","-","s","t","o","r","e",","," ","n","o","-","c","a","c","h","e",","," ","m","u","s","t","-","r","e","v","a","l","i","d","a","t","e",","," ","p","o","s","t","-","c","h","e","c","k","=","0",","," ","p","r","e","-","c","h","e","c","k","=","0">>)
        h2 == HInsert(h1, <<"P","r","a","g","m","a">>, <<"n","o","-","c","a","c","h","e">>)
    IN  HInsert(h2, <<"E","x","p","i","r","e","s">>, <<"0">>)

\* A response: status, header map, and which body it carries.
Response(status, headers, body) == [status |-> status, headers |-> headers, body |-> body]

NoResponse == Response(0, EmptyHeaders, "none")

\* impl IntoResponse for AppError: (status, message).into_response()
AppErrorResponse(kind) ==
    Response(IF kind = "BadRequest" THEN 400 ELSE IF kind = "Internal" THEN 500 ELSE 401,
             HInsert(EmptyHeaders, <<"c","o","n","t","e","n","t","-","t","y","p","e">>, <<"t","e","x","t","/","p","l","a","i","n",";"," ","c","h","a","r","s","e","t","=","u","t","f","-","8">>),
             kind)

-----------------------------------------------------------------------------
(* main.rs and the request/response cycle                                  *)

NoFrame == [response_headers |-> EmptyHeaders, origin_url |-> <<>>]

NoRequest == [method |-> "none", hasUrl |-> FALSE, url |-> <<>>, headers |-> EmptyHeaders]

\* A request on the wire: method, the `url` query parameter (percent-decoded) when
\* the query string has one, and the header lines.
WireRequest(method, hasUrl, url, lines) ==
    [method |-> method, hasUrl |-> hasUrl, url |-> url, lines |-> lines]

\* axum's rejection when Query<ProxyQuery> cannot be deserialized (no `url` field):
\* the server layer answers by itself and main_handler is never entered.
QueryRejection ==
    Response(400, HInsert(EmptyHeaders, <<"c","o","n","t","e","n","t","-","t","y","p","e">>, <<"t","e","x","t","/","p","l","a","i","n",";"," ","c","h","a","r","s","e","t","=","u","t","f","-","8">>), "QueryRejection")

\* headers.get("authorization").and_then(|v| v.to_str().ok()).unwrap_or("")
auth_header(headers) ==
    IF HContains(headers, <<"a","u","t","h","o","r","i","z","a","t","i","o","n">>) /\ ToStrOk(HFirst(headers, <<"a","u","t","h","o","r","i","z","a","t","i","o","n">>))
    THEN HFirst(headers, <<"a","u","t","h","o","r","i","z","a","t","i","o","n">>)
    ELSE <<>>

\* for (name, value) in target_headers.iter() { request_builder.header(name, value) }
BuilderHeaders(target_headers) == Strict(HIter(target_headers), LAMBDA entries : AppendEach(EmptyHeaders, entries))

\* reqwest refuses, before any network traffic, a URL it cannot send to: one
\* without a host or with a scheme other than http(s).
CanSend(url_string) ==
    Strict(ParseUrl(url_string), LAMBDA u :
        u.ok /\ u.hasAuthority /\ u.host # <<>> /\ u.scheme \in { <<"h","t","t","p">>, <<"h","t","t","p","s">> })

ForwardedCall(method, url, headers) == [method |-> method, url |-> url, headers |-> headers]

InitWith(tokens) ==
    /\ token \in tokens
    /\ pc = "idle"
    /\ req = NoRequest
    /\ auth = "unchecked"
    /\ frame = NoFrame
    /\ fwd = <<>>
    /\ originResp = NoResponse
    /\ resp = NoResponse

\* The server layer has read a request and built the handler's arguments.
Receive(w) ==
    /\ pc = "idle"
    /\ pc' = "received"
    /\ req' = [method |-> w.method, hasUrl |-> w.hasUrl, url |-> w.url, headers |-> FromWire(w.lines)]
    /\ UNCHANGED <<token, auth, frame, fwd, originResp, resp>>

\* The extractors, then main_handler and proxy_handler up to request_builder.send().await
\* or to the first return.
MainHandler ==
    /\ pc = "received"
    /\ UNCHANGED <<token, req, originResp>>
    /\ IF ~req.hasUrl
       THEN /\ resp' = QueryRejection
            /\ pc' = "done"
            /\ UNCHANGED <<auth, frame, fwd>>
       ELSE IF req.method = "OPTIONS"
       THEN /\ resp' = Response(200, add_cors_headers(EmptyHeaders, req.headers), "empty")
            /\ pc' = "done"
            /\ UNCHANGED <<auth, frame, fwd>>
       ELSE \E response_headers \in {add_cache_control_headers(add_cors_headers(EmptyHeaders, req.headers))} :
            IF ~valid_bearer(auth_header(req.headers), token)
            THEN /\ resp' = Response(401, InsertAll(EmptyHeaders, response_headers), "AuthFailed")
                 /\ auth' = "fail"
                 /\ pc' = "done"
                 /\ UNCHANGED <<frame, fwd>>
            ELSE \E origin_url \in {parse_origin_url(req.url)} :
                 /\ auth' = "pass"
                 /\ IF ~origin_url.ok
                    THEN /\ resp' = Response(400,
                                       InsertAll(AppErrorResponse("BadRequest").headers, response_headers),
                                       "BadRequest")
                         /\ pc' = "done"
                         /\ UNCHANGED <<frame, fwd>>
                    ELSE IF ~CanSend(req.url)
                    THEN /\ resp' = Response(500,
                                       InsertAll(AppErrorResponse("Internal").headers, response_headers),
                                       "Internal")
                         /\ pc' = "done"
                         /\ UNCHANGED <<frame, fwd>>
                    ELSE /\ fwd' = Append(fwd,
                                ForwardedCall(reqwest_method(req.method), req.url,
                                    BuilderHeaders(copy_request_headers(req.headers))))
                         /\ frame' = [response_headers |-> response_headers,
                                      origin_url |-> origin_url.value]
                         /\ pc' = "forwarding"
                         /\ UNCHANGED resp

\* Mutant: the client keeps reqwest's default policy and follows redirects.
redirect_policy_limited(previous) == IF previous >= 10 THEN "stop" ELSE "follow"

\* .redirect(reqwest::redirect::Policy::none()): what the client does with a 3xx
\* reply that has a Location, after `previous` redirects already followed.
redirect_policy(previous) == "stop"

\* The origin answers the forwarded call. A client that follows redirects issues
\* the next call by itself; otherwise send() returns the reply and the rest of
\* proxy_handler and main_handler runs.
OriginResponds(o) ==
    /\ pc = "forwarding"
    /\ IF /\ is_redirect(o.status)
          /\ HContains(o.headers, <<"l","o","c","a","t","i","o","n">>)
          /\ redirect_policy(Len(fwd) - 1) = "follow"
       THEN /\ fwd' = Append(fwd, ForwardedCall(fwd[Len(fwd)].method, HFirst(o.headers, <<"l","o","c","a","t","i","o","n">>),
                                                fwd[Len(fwd)].headers))
            /\ UNCHANGED <<token, pc, req, auth, frame, originResp, resp>>
       ELSE /\ originResp' = o
            /\ resp' = Response(final_status(o.status),
                                InsertAll(modify_location(copy_response_headers(o.headers, EmptyHeaders, o.status),
                                                          frame.origin_url),
                                          frame.response_headers),
                                "OriginBody")
            /\ pc' = "done"
            /\ UNCHANGED <<token, req, auth, frame, fwd>>

\* The forwarded call fails (connection, DNS, TLS, timeout): send() returns Err.
SendFails ==
    /\ pc = "forwarding"
    /\ resp' = Response(500, InsertAll(AppErrorResponse("Internal").headers, frame.response_headers), "Internal")
    /\ pc' = "done"
    /\ UNCHANGED <<token, req, auth, frame, fwd, originResp>>

-----------------------------------------------------------------------------
(* Inputs: the requests clients send and the replies origins give          *)

\* Most values one header name carries in a generated header set.
MaxValues == 2

\* All sequences over S of length 0..n.
RECURSIVE SeqsUpTo(_, _)
SeqsUpTo(S, n) ==
    IF n = 0 THEN {<<>>}
    ELSE Strict(SeqsUpTo(S, n - 1), LAMBDA shorter :
             shorter \cup {Append(p, c) : p \in {q \in shorter : Len(q) = n - 1}, c \in S})

\* The value lists of one header: 1..MaxValues values drawn from vals.
ValueLists(vals) == SeqsUpTo(vals, MaxValues) \ {<<>>}

HeaderChoice(name, lists) == [name |-> name, lists |-> lists]

\* The header-line sequences that take at most `budget` of the names pool[i..],
\* each with one of its value lists, in pool order.
RECURSIVE LineSets(_, _, _)
LineSets(pool, i, budget) ==
    IF i > Len(pool) \/ budget = 0 THEN {<<>>}
    ELSE LineSets(pool, i + 1, budget)
         \cup { [k \in 1..Len(l) |-> <<pool[i].name, l[k]>>] \o rest :
                    l \in pool[i].lists, rest \in LineSets(pool, i + 1, budget - 1) }

OriginResponse(status, lines) == [status |-> status, headers |-> FromWire(lines)]

(* Spec: the whole request cycle, over methods, query strings, credentials   *)
(* and CORS request headers.                                                 *)

OrchTokens == { <<"t","0","k">> }

OrchMethods == {"GET", "POST", "OPTIONS", "DELETE", "TRACE"}

OrchUrls ==
    { <<>>, <<"e","x","a","m","p","l","e",".","c","o","m","/","a">>, <<"/","a","/","b">>, <<"h","t","t","p",":","/","/">>, <<"h","t","t","p",":","/","/","e","x","a","m","p","l","e",".","c","o","m","/","a","/","b","?","x","=","1">>,
      <<"h","t","t","p","s",":","/","/","h",".","i","o",":","8","4","4","3">>, <<"m","a","i","l","t","o",":","a","@","h",".","i","o">> }

OrchRequestHeaders ==
    << HeaderChoice(<<"A","u","t","h","o","r","i","z","a","t","i","o","n">>,
           { << <<"B","e","a","r","e","r"," ","t","0","k">> >>, << <<"b","e","a","r","e","r"," "," ","t","0","k"," ">> >>, << <<"B","e","a","r","e","r"," ","b","a","d">> >>, << <<"B","a","s","i","c"," ","t","0","k">> >>,
             << <<"B","e","a","r","e","r"," ","t","0","k",OBS>> >>, << <<"B","e","a","r","e","r"," ","b","a","d">>, <<"B","e","a","r","e","r"," ","t","0","k">> >> }),
       HeaderChoice(<<"O","r","i","g","i","n">>, { << <<"h","t","t","p","s",":","/","/","a","p","p",".","e","x","a","m","p","l","e">> >> }),
       HeaderChoice(<<"A","c","c","e","s","s","-","C","o","n","t","r","o","l","-","R","e","q","u","e","s","t","-","H","e","a","d","e","r","s">>, { << <<>> >>, << <<"x","-","f","o","o">> >> }) >>

OrchRequests ==
    { WireRequest(m, q[1], q[2], lines) :
        m \in OrchMethods,
        q \in {<<FALSE, <<>> >>} \cup {<<TRUE, u>> : u \in OrchUrls},
        lines \in LineSets(OrchRequestHeaders, 1, Len(OrchRequestHeaders)) }

OrchResponseHeaders ==
    << HeaderChoice(<<"l","o","c","a","t","i","o","n">>, { << <<"/","c">> >> }),
       HeaderChoice(<<"a","c","c","e","s","s","-","c","o","n","t","r","o","l","-","a","l","l","o","w","-","o","r","i","g","i","n">>, { << <<"h","t","t","p","s",":","/","/","e","v","i","l",".","e","x","a","m","p","l","e">> >> }),
       HeaderChoice(<<"s","e","t","-","c","o","o","k","i","e">>, { << <<"a","=","1">> >> }) >>

OrchResponses ==
    { OriginResponse(st, lines) :
        st \in {200, 302, 404},
        lines \in LineSets(OrchResponseHeaders, 1, Len(OrchResponseHeaders)) }

ReceiveAny == \E w \in OrchRequests : Receive(w)

OriginRespondsAny == \E o \in OrchResponses : OriginResponds(o)

Next == ReceiveAny \/ MainHandler \/ OriginRespondsAny \/ SendFails

Init == InitWith(OrchTokens)

Spec == Init /\ [][Next]_vars

\* The runtime keeps polling the handler, and send() always completes: with a
\* reply, or with an error at the latest when the client's timeout expires.
FairSpec == Spec /\ WF_vars(MainHandler) /\ WF_vars(OriginRespondsAny \/ SendFails)

(* SpecAuth: Authorization header values against configured credentials.     *)

\* Longest configured credential.
MaxTokenLen == 2

AuthTokens == SeqsUpTo({"x", " "}, MaxTokenLen)

AuthSchemes == { <<"B","e","a","r","e","r">>, <<"b","e","a","r","e","r">>, <<"B","E","A","R","E","R">>, <<"B","a","s","i","c">>, <<"B","e","a","r","e">>, <<>> }

\* The text after the scheme: every credential, and two texts that differ
\* from a credential only in letter case.
AuthTexts == AuthTokens \cup { <<"X">>, <<"x","X">> }

AuthHeaderValues ==
    { scheme \o sep \o before \o text \o after :
        scheme \in AuthSchemes, sep \in { <<>>, <<" ">> }, before \in { <<>>, <<TAB>> },
        text \in AuthTexts, after \in { <<>>, <<TAB>> } }

GoodUrl == <<"h","t","t","p",":","/","/","e","x","a","m","p","l","e",".","c","o","m","/","a","/","b","?","x","=","1">>

AuthRequests ==
    { WireRequest("GET", TRUE, GoodUrl, lines) :
        lines \in { <<>> } \cup { << <<<<"A","u","t","h","o","r","i","z","a","t","i","o","n">>, h>> >> : h \in AuthHeaderValues } }

PlainResponses == { OriginResponse(200, <<>>) }

ReceiveAuth == \E w \in AuthRequests : Receive(w)

OriginRespondsPlain == \E o \in PlainResponses : OriginResponds(o)

NextAuth == ReceiveAuth \/ MainHandler \/ OriginRespondsPlain \/ SendFails

InitAuth == InitWith(AuthTokens)

SpecAuth == InitAuth /\ [][NextAuth]_vars

(* SpecReq: inbound header sets of an authenticated request.                 *)

\* Accept is offered both before and after Tun-Accept on the wire.
ReqHeaderPool ==
    << HeaderChoice(<<"A","c","c","e","p","t">>, { << <<"a">> >>, << <<"B">> >> }),
       HeaderChoice(<<"T","u","n","-","A","c","c","e","p","t">>, ValueLists({ <<"a">>, <<"B">> })),
       HeaderChoice(<<"C","o","o","k","i","e">>, { << <<"c","=","1">> >> }),
       HeaderChoice(<<"t","u","n","-","c","o","o","k","i","e">>, { << <<"d","=","2">> >> }),
       HeaderChoice(<<"t","u","n","-">>, { << <<"e">> >> }),
       HeaderChoice(<<"t","u","n","-","t","u","n","-","a","c","c","e","p","t">>, { << <<"f">> >> }),
       HeaderChoice(<<"O","r","i","g","i","n">>, { << <<"h","t","t","p","s",":","/","/","a","p","p",".","e","x","a","m","p","l","e">> >> }),
       HeaderChoice(<<"a","c","c","e","p","t">>, { << <<"g">> >> }) >>

GoodAuthorization == << <<"A","u","t","h","o","r","i","z","a","t","i","o","n">>, <<"B","e","a","r","e","r"," ","t","0","k">> >>

HeaderRequests ==
    { WireRequest("GET", TRUE, GoodUrl, <<GoodAuthorization>> \o lines) :
        lines \in LineSets(ReqHeaderPool, 1, Len(ReqHeaderPool)) }

ReceiveHeaders == \E w \in HeaderRequests : Receive(w)

NextReq == ReceiveHeaders \/ MainHandler \/ OriginRespondsPlain \/ SendFails

InitReq == InitWith(OrchTokens)

SpecReq == InitReq /\ [][NextReq]_vars

(* SpecResp: origin replies to one authenticated request.                    *)

RespStatuses == {200, 299, 300, 399, 400}

RespLocations == { <<>>, <<" ">>, <<"/","c">>, <<"/","c","a","f",OBS>>, <<"h","t","t","p",":","/","/","o",".","i","o","/">> }

RespHeaderPool ==
    << HeaderChoice(<<"A","c","c","e","s","s","-","C","o","n","t","r","o","l","-","A","l","l","o","w","-","O","r","i","g","i","n">>, { << <<"h","t","t","p","s",":","/","/","e","v","i","l",".","e","x","a","m","p","l","e">> >> }),
       HeaderChoice(<<"a","c","c","e","s","s","-","c","o","n","t","r","o","l","-","a","l","l","o","w","-","p","r","i","v","a","t","e","-","n","e","t","w","o","r","k">>, { << <<"t","r","u","e">> >> }),
       HeaderChoice(<<"S","e","t","-","C","o","o","k","i","e">>, ValueLists({ <<"a">>, <<"B">> })),
       HeaderChoice(<<"t","u","n","-","s","e","t","-","c","o","o","k","i","e">>, { << <<"z">> >> }),
       HeaderChoice(<<"L","o","c","a","t","i","o","n">>,
           { <<v>> \o more : v \in RespLocations, more \in { <<>>, << <<"/","z">> >> } }),
       HeaderChoice(<<"t","u","n","-","s","t","a","t","u","s">>, { << <<"9","9","9">> >> }) >>

RespRequests ==
    { WireRequest("GET", TRUE, GoodUrl, << GoodAuthorization, <<<<"O","r","i","g","i","n">>, <<"h","t","t","p","s",":","/","/","a","p","p",".","e","x","a","m","p","l","e">>>> >>) }

RespResponses ==
    { OriginResponse(st, lines) :
        st \in RespStatuses, lines \in LineSets(RespHeaderPool, 1, Len(RespHeaderPool)) }

ReceiveResp == \E w \in RespRequests : Receive(w)

OriginRespondsResp == \E o \in RespResponses : OriginResponds(o)

NextResp == ReceiveResp \/ MainHandler \/ OriginRespondsResp \/ SendFails

InitResp == InitWith(OrchTokens)

SpecResp == InitResp /\ [][NextResp]_vars

(* SpecLoc: redirect targets against Location values.                        *)

LocTargets ==
    { GoodUrl, <<"h","t","t","p","s",":","/","/","u","s","e","r",":","p","w","@","h",".","i","o",":","8","4","4","3","/","p","#","f","r","a","g">>, <<"H","T","T","P",":","/","/","E","x","a","m","p","l","e",".","C","O","M",":","8","0">>, <<"h","t","t","p",":","/","/","h",".","i","o","/","x","/","#","f","/">> }

LocValues ==
    { before \o prefix \o rest \o after :
        before \in { <<>>, <<" ">> }, after \in { <<>>, <<" ">> },
        prefix \in { <<>>, <<"/","/">>, <<"h","t","t","p",":","/","/">>, <<"h","t","t","p","s",":","/","/">>, <<"/">>, <<"H","T","T","P",":","/","/">>, <<"/","/","/">>, <<".","/">>, <<"?">> },
        rest \in { <<>>, <<"c">>, <<"d","/","e">>, <<"o",".","i","o","/","p","?","q","=","1","&","r">> } }

LocRequests == { WireRequest("GET", TRUE, u, <<GoodAuthorization>>) : u \in LocTargets }

LocResponses ==
    { OriginResponse(st, << <<<<"L","o","c","a","t","i","o","n">>, l>> >> \o spoof) :
        st \in {200, 302}, l \in LocValues,
        spoof \in { <<>>, << <<<<"t","u","n","-","L","o","c","a","t","i","o","n">>, <<"h","t","t","p",":","/","/","s","p","o","o","f","/">>>> >> } }

ReceiveLoc == \E w \in LocRequests : Receive(w)

OriginRespondsLoc == \E o \in LocResponses : OriginResponds(o)

NextLoc == ReceiveLoc \/ MainHandler \/ OriginRespondsLoc \/ SendFails

InitLoc == InitWith(OrchTokens)

SpecLoc == InitLoc /\ [][NextLoc]_vars

(* SpecCors: Origin and Access-Control-Request-Headers values on every      *)
(* response path.                                                            *)

CorsRequestPool ==
    << HeaderChoice(<<"A","u","t","h","o","r","i","z","a","t","i","o","n">>, { << <<"B","e","a","r","e","r"," ","t","0","k">> >> }),
       HeaderChoice(<<"O","r","i","g","i","n">>,
           { << <<"h","t","t","p","s",":","/","/","a","p","p",".","e","x","a","m","p","l","e">> >>, << <<>> >>, << <<"h","t","t","p","s",":","/","/","c","a","f",OBS,".","e","x","a","m","p","l","e">> >>,
             << <<"h","t","t","p","s",":","/","/","a","p","p",".","e","x","a","m","p","l","e">>, <<"h","t","t","p","s",":","/","/","o","t","h","e","r",".","e","x","a","m","p","l","e">> >> }),
       HeaderChoice(<<"A","c","c","e","s","s","-","C","o","n","t","r","o","l","-","R","e","q","u","e","s","t","-","H","e","a","d","e","r","s">>,
           { << <<>> >>, << <<"x","-","f","o","o">> >>, << <<"x","-",OBS>> >> }) >>

CorsRequests ==
    { WireRequest(m, TRUE, u, lines) :
        m \in {"GET", "OPTIONS"}, u \in { GoodUrl, <<"e","x","a","m","p","l","e",".","c","o","m","/","a">> },
        lines \in LineSets(CorsRequestPool, 1, Len(CorsRequestPool)) }

CorsResponses ==
    { OriginResponse(200, lines) :
        lines \in { <<>>, << <<<<"A","c","c","e","s","s","-","C","o","n","t","r","o","l","-","A","l","l","o","w","-","O","r","i","g","i","n">>, <<"h","t","t","p","s",":","/","/","e","v","i","l",".","e","x","a","m","p","l","e">>>> >> } }

ReceiveCors == \E w \in CorsRequests : Receive(w)

OriginRespondsCors == \E o \in CorsResponses : OriginResponds(o)

NextCors == ReceiveCors \/ MainHandler \/ OriginRespondsCors \/ SendFails

InitCors == InitWith(OrchTokens)

SpecCors == InitCors /\ [][NextCors]_vars

(* SpecPass: origin replies whose headers the proxy copies, renames,        *)
(* drops or overrides.                                                       *)

PassHeaderPool ==
    << HeaderChoice(<<"C","a","c","h","e","-","C","o","n","t","r","o","l">>, { << <<"m","a","x","-","a","g","e","=","6","0">> >> }),
       HeaderChoice(<<"X","-","C","u","s","t","o","m">>, ValueLists({ <<"a">>, <<"B">> })),
       HeaderChoice(<<"C","o","n","t","e","n","t","-","T","y","p","e">>, { << <<"t","e","x","t","/","h","t","m","l">> >> }),
       HeaderChoice(<<"A","c","c","e","s","s","-","C","o","n","t","r","o","l","-","A","l","l","o","w","-","O","r","i","g","i","n">>, { << <<"h","t","t","p","s",":","/","/","e","v","i","l",".","e","x","a","m","p","l","e">> >> }),
       HeaderChoice(<<"S","e","t","-","C","o","o","k","i","e">>, { << <<"a","=","1">> >> }),
       HeaderChoice(<<"t","u","n","-","s","e","t","-","c","o","o","k","i","e">>, { << <<"z">> >> }),
       HeaderChoice(<<"L","o","c","a","t","i","o","n">>, { << <<"/","c">> >> }),
       HeaderChoice(<<"t","u","n","-","l","o","c","a","t","i","o","n">>, { << <<"h","t","t","p",":","/","/","s","p","o","o","f","/">> >> }),
       HeaderChoice(<<"t","u","n","-","s","t","a","t","u","s">>, { << <<"9","9","9">> >> }) >>

PassResponses ==
    { OriginResponse(st, lines) :
        st \in {200, 302}, lines \in LineSets(PassHeaderPool, 1, Len(PassHeaderPool)) }

ReceivePass == \E w \in RespRequests : Receive(w)

OriginRespondsPass == \E o \in PassResponses : OriginResponds(o)

NextPass == ReceivePass \/ MainHandler \/ OriginRespondsPass \/ SendFails

InitPass == InitWith(OrchTokens)

SpecPass == InitPass /\ [][NextPass]_vars

-----------------------------------------------------------------------------
(* Properties                                                                *)

\* The endpoint has returned a response to the client.
Returned == pc = "done"

\* The endpoint has returned the response it built from an origin reply.
Relayed == pc = "done" /\ originResp.status # 0

HasPrefix(s, p) == Len(s) >= Len(p) /\ SubSeq(s, 1, Len(p)) = p

InjectedCorsNames ==
    { <<"a","c","c","e","s","s","-","c","o","n","t","r","o","l","-","a","l","l","o","w","-","o","r","i","g","i","n">>, <<"a","c","c","e","s","s","-","c","o","n","t","r","o","l","-","a","l","l","o","w","-","m","e","t","h","o","d","s">>,
      <<"a","c","c","e","s","s","-","c","o","n","t","r","o","l","-","a","l","l","o","w","-","h","e","a","d","e","r","s">>, <<"a","c","c","e","s","s","-","c","o","n","t","r","o","l","-","m","a","x","-","a","g","e">>,
      <<"a","c","c","e","s","s","-","c","o","n","t","r","o","l","-","a","l","l","o","w","-","c","r","e","d","e","n","t","i","a","l","s">>, <<"a","c","c","e","s","s","-","c","o","n","t","r","o","l","-","e","x","p","o","s","e","-","h","e","a","d","e","r","s">> }

\* C1: every response the endpoint returns, whatever the request, carries each
\* of the six Access-Control-* headers with the value the CORS injector computes
\* for that request.
C1_EveryResponseCarriesCors ==
    Returned =>
        \A n \in InjectedCorsNames :
            /\ HContains(resp.headers, n)
            /\ HValues(resp.headers, n) = HValues(add_cors_headers(EmptyHeaders, req.headers), n)

\* C2: a call is forwarded only after the bearer check succeeded for the same
\* request, and every non-OPTIONS request whose Authorization header is missing
\* or fails valid_bearer ends with status 401 and without any forwarded call.
C2_UnauthenticatedEndsWith401 ==
    /\ fwd # <<>> => auth = "pass"
    /\ (Returned /\ req.method # "OPTIONS" /\ ~valid_bearer(auth_header(req.headers), token))
           => (resp.status = 401 /\ fwd = <<>>)

AllWhitespace(s) == \A i \in 1..Len(s) : IsWhitespace(s[i])

NoOuterWhitespace(s) == s = <<>> \/ (~IsWhitespace(s[1]) /\ ~IsWhitespace(s[Len(s)]))

\* r is c with any amount of whitespace before and after it.
Surrounds(r, c) ==
    \E i \in 0..(Len(r) - Len(c)) :
        /\ AllWhitespace(SubSeq(r, 1, i))
        /\ SubSeq(r, i + 1, i + Len(c)) = c
        /\ AllWhitespace(SubSeq(r, i + Len(c) + 1, Len(r)))

\* r, with its leading and trailing whitespace removed, is c.
TrimmedIs(r, c) == NoOuterWhitespace(c) /\ Surrounds(r, c)

\* h begins, in any letter case, with Bearer and a space.
HasBearerScheme(h) ==
    /\ Len(h) >= 7
    /\ \A i \in 1..6 : ToLowerChar(h[i]) = <<"b","e","a","r","e","r">>[i]
    /\ h[7] = " "

\* The Authorization value the bearer check was given.
CheckedHeader == IF req.headers = <<>> THEN <<>> ELSE req.headers[1][2]

\* C3 as stated: valid_bearer(h, C) is true exactly when h begins, in any letter
\* case, with Bearer and a space and the rest of h, trimmed, equals C; for every
\* credential C, Bearer + C with whitespace around the token is accepted; any
\* other scheme and the empty header are rejected.
C3_AnyCredentialAccepted ==
    auth # "unchecked" =>
        /\ (auth = "pass") <=> (HasBearerScheme(CheckedHeader) /\ TrimmedIs(DropFirst(CheckedHeader, 7), token))
        /\ (HasBearerScheme(CheckedHeader) /\ Surrounds(DropFirst(CheckedHeader, 7), token)) => auth = "pass"
        /\ ~HasBearerScheme(CheckedHeader) => auth = "fail"
        /\ CheckedHeader = <<>> => auth = "fail"

\* C3: valid_bearer(h, C) is true exactly when h begins, in any letter case, with
\* Bearer and a space and the rest of h, trimmed, equals C; for every credential
\* C that has no leading or trailing whitespace, Bearer + C with whitespace
\* around the token is accepted; any other scheme and the empty header are
\* rejected.
C3_ValidBearerContract ==
    auth # "unchecked" =>
        /\ (auth = "pass") <=> (HasBearerScheme(CheckedHeader) /\ TrimmedIs(DropFirst(CheckedHeader, 7), token))
        /\ (/\ NoOuterWhitespace(token)
            /\ HasBearerScheme(CheckedHeader)
            /\ Surrounds(DropFirst(CheckedHeader, 7), token)) => auth = "pass"
        /\ ~HasBearerScheme(CheckedHeader) => auth = "fail"
        /\ CheckedHeader = <<>> => auth = "fail"

\* A non-empty credential accepted under a scheme not written `Bearer` and with
\* whitespace around the token.
C3_Witness ==
    /\ auth = "pass"
    /\ token # <<>>
    /\ SubSeq(CheckedHeader, 1, 6) # <<"B","e","a","r","e","r">>
    /\ Len(CheckedHeader) >= 7 + Len(token) + 2

\* C4: each value of an inbound header tun-X (X non-empty) is emitted as a value
\* of outbound header X, unchanged and as often, and the outbound values of X
\* are exactly the tun-X values (no value of an inbound bare X among them).
C4_TunHeaderOverrides ==
    fwd # <<>> =>
        \A n \in HNames(req.headers) :
            (Len(n) > 4 /\ SubSeq(n, 1, 4) = <<"t","u","n","-">>) =>
                HValues(fwd[1].headers, SubSeq(n, 5, Len(n))) = HValues(req.headers, n)

\* A forwarded request whose inbound headers held Accept and a Tun-Accept of
\* several values.
C4_Witness ==
    /\ fwd # <<>>
    /\ HContains(req.headers, <<"a","c","c","e","p","t">>)
    /\ Len(HValues(req.headers, <<"t","u","n","-","a","c","c","e","p","t">>)) >= 2
    /\ HValues(fwd[1].headers, <<"a","c","c","e","p","t">>) = HValues(req.headers, <<"t","u","n","-","a","c","c","e","p","t">>)

\* C5: no access-control-* value supplied by the origin appears in the client
\* response: every access-control-* header of the final response has exactly
\* the single value add_cors_headers computes for the request.
C5_OriginCorsStripped ==
    Relayed =>
        \E injected \in {add_cors_headers(EmptyHeaders, req.headers)} :
            \A n \in HNames(resp.headers) \cup HNames(originResp.headers) :
                HasPrefix(n, <<"a","c","c","e","s","s","-","c","o","n","t","r","o","l","-">>) =>
                    /\ HValues(resp.headers, n) = HValues(injected, n)
                    /\ Len(HValues(resp.headers, n)) <= 1

\* An origin reply that set Access-Control-Allow-Origin and a CORS header the
\* injector does not set.
C5_Witness ==
    /\ Relayed
    /\ HValues(originResp.headers, <<"a","c","c","e","s","s","-","c","o","n","t","r","o","l","-","a","l","l","o","w","-","o","r","i","g","i","n">>) = << <<"h","t","t","p","s",":","/","/","e","v","i","l",".","e","x","a","m","p","l","e">> >>
    /\ HContains(originResp.headers, <<"a","c","c","e","s","s","-","c","o","n","t","r","o","l","-","a","l","l","o","w","-","p","r","i","v","a","t","e","-","n","e","t","w","o","r","k">>)
    /\ HValues(resp.headers, <<"a","c","c","e","s","s","-","c","o","n","t","r","o","l","-","a","l","l","o","w","-","o","r","i","g","i","n">>) = << <<"h","t","t","p","s",":","/","/","a","p","p",".","e","x","a","m","p","l","e">> >>

DigitChar(d) == <<"0", "1", "2", "3", "4", "5", "6", "7", "8", "9">>[d + 1]

\* The decimal string of a three-digit number.
DecimalOf(s) == << DigitChar(s \div 100), DigitChar((s \div 10) % 10), DigitChar(s % 10) >>

\* C6: an origin status s in [300, 400) reaches the client as status 200 with a
\* tun-status header whose (first) value is the decimal string of s; any other
\* origin status reaches the client unchanged.
C6_RedirectStatusRewritten ==
    Relayed =>
        IF originResp.status >= 300 /\ originResp.status < 400
        THEN /\ resp.status = 200
             /\ HContains(resp.headers, <<"t","u","n","-","s","t","a","t","u","s">>)
             /\ HFirst(resp.headers, <<"t","u","n","-","s","t","a","t","u","s">>) = DecimalOf(originResp.status)
        ELSE resp.status = originResp.status

\* A 399 reply, which itself carried a tun-status header, relayed as 200.
C6_Witness ==
    /\ Relayed
    /\ originResp.status = 399
    /\ HContains(originResp.headers, <<"t","u","n","-","s","t","a","t","u","s">>)
    /\ resp.status = 200

\* C7: whatever the status and the Location value(s) of the origin reply, the
\* response returned to the client has no header named Location.
C7_LocationNeverReachesClient ==
    Relayed => ~HContains(resp.headers, <<"l","o","c","a","t","i","o","n">>)

\* The scheme of an origin string: the text before its first colon.
SchemeOf(o) == SubSeq(o, 1, (CHOOSE i \in 1..Len(o) : o[i] = ":" /\ \A j \in 1..(i - 1) : o[j] # ":") - 1)

\* The tun-Location value for origin o and trimmed Location value l.
ExpectedTunLocation(o, l) ==
    IF HasPrefix(l, <<"/","/">>) THEN SchemeOf(o) \o <<":">> \o l
    ELSE IF HasPrefix(l, <<"h","t","t","p",":","/","/">>) \/ HasPrefix(l, <<"h","t","t","p","s",":","/","/">>) THEN l
    ELSE IF HasPrefix(l, <<"/">>) THEN o \o l
    ELSE o \o <<"/">> \o l

\* The Location value of the origin reply, trimmed.
TrimmedLocation == Trim(HFirst(originResp.headers, <<"l","o","c","a","t","i","o","n">>))

C9_SetCookieRenamed ==
    Relayed =>
        /\ HValues(resp.headers, <<"t","u","n","-","s","e","t","-","c","o","o","k","i","e">>) = HValues(originResp.headers, <<"s","e","t","-","c","o","o","k","i","e">>)
        /\ ~HContains(resp.headers, <<"s","e","t","-","c","o","o","k","i","e">>)

ForwardWhitelist ==
    { <<"c","o","n","t","e","n","t","-","t","y","p","e">>, <<"c","o","n","t","e","n","t","-","l","e","n","g","t","h">>, <<"u","s","e","r","-","a","g","e","n","t">>, <<"a","c","c","e","p","t">>, <<"a","c","c","e","p","t","-","e","n","c","o","d","i","n","g">>, <<"k","e","e","p","-","a","l","i","v","e">> }

\* C10: the forwarded request has a header named N only if the inbound request
\* had tun-N, or N is one of the six whitelisted names and the inbound request
\* had N; Authorization, Cookie and Origin are forwarded only from tun-
\* prefixed inbound headers.
C10_OnlyWhitelistedOrTunForwarded ==
    fwd # <<>> =>
        /\ \A n \in HNames(fwd[1].headers) :
               \/ HContains(req.headers, <<"t","u","n","-">> \o n)
               \/ (n \in ForwardWhitelist /\ HContains(req.headers, n))
        /\ \A n \in { <<"a","u","t","h","o","r","i","z","a","t","i","o","n">>, <<"c","o","o","k","i","e">>, <<"o","r","i","g","i","n">> } :
               HContains(fwd[1].headers, n) => HContains(req.headers, <<"t","u","n","-">> \o n)

\* A forwarded request whose inbound headers held Authorization, Cookie, Origin
\* and Accept, and no tun-cookie: only Accept went out.
C10_Witness ==
    /\ fwd # <<>>
    /\ HContains(req.headers, <<"a","u","t","h","o","r","i","z","a","t","i","o","n">>)
    /\ HContains(req.headers, <<"c","o","o","k","i","e">>)
    /\ HContains(req.headers, <<"o","r","i","g","i","n">>)
    /\ ~HContains(req.headers, <<"t","u","n","-","c","o","o","k","i","e">>)
    /\ HNames(fwd[1].headers) = { <<"a","c","c","e","p","t">> }

\* C11: every OPTIONS request is answered with status 200 and an empty body,
\* whether or not it carries a valid credential, and causes no forwarded call.
C11_PreflightAlwaysAnswered ==
    (Returned /\ req.method = "OPTIONS") =>
        /\ resp.status = 200
        /\ resp.body = "empty"
        /\ fwd = <<>>

\* C12: on every response path Access-Control-Allow-Origin is the inbound Origin
\* value when that header is present and * otherwise, Access-Control-Allow-
\* Headers is the inbound Access-Control-Request-Headers value when present and
\* non-empty and * otherwise, allow-methods is *, max-age is 86400,
\* allow-credentials is true, and expose-headers names exactly tun-Location,
\* tun-Location-Proxy, tun-set-cookie and tun-status.
C12_CorsValues ==
    Returned =>
        /\ HValues(resp.headers, <<"a","c","c","e","s","s","-","c","o","n","t","r","o","l","-","a","l","l","o","w","-","o","r","i","g","i","n">>)
               = << IF HContains(req.headers, <<"o","r","i","g","i","n">>)
                    THEN HFirst(req.headers, <<"o","r","i","g","i","n">>) ELSE <<"*">> >>
        /\ HValues(resp.headers, <<"a","c","c","e","s","s","-","c","o","n","t","r","o","l","-","a","l","l","o","w","-","h","e","a","d","e","r","s">>)
               = << IF /\ HContains(req.headers, <<"a","c","c","e","s","s","-","c","o","n","t","r","o","l","-","r","e","q","u","e","s","t","-","h","e","a","d","e","r","s">>)
                       /\ HFirst(req.headers, <<"a","c","c","e","s","s","-","c","o","n","t","r","o","l","-","r","e","q","u","e","s","t","-","h","e","a","d","e","r","s">>) # <<>>
                    THEN HFirst(req.headers, <<"a","c","c","e","s","s","-","c","o","n","t","r","o","l","-","r","e","q","u","e","s","t","-","h","e","a","d","e","r","s">>) ELSE <<"*">> >>
        /\ HValues(resp.headers, <<"a","c","c","e","s","s","-","c","o","n","t","r","o","l","-","a","l","l","o","w","-","m","e","t","h","o","d","s">>) = << <<"*">> >>
        /\ HValues(resp.headers, <<"a","c","c","e","s","s","-","c","o","n","t","r","o","l","-","m","a","x","-","a","g","e">>) = << <<"8","6","4","0","0">> >>
        /\ HValues(resp.headers, <<"a","c","c","e","s","s","-","c","o","n","t","r","o","l","-","a","l","l","o","w","-","c","r","e","d","e","n","t","i","a","l","s">>) = << <<"t","r","u","e">> >>
        /\ HValues(resp.headers, <<"a","c","c","e","s","s","-","c","o","n","t","r","o","l","-","e","x","p","o","s","e","-","h","e","a","d","e","r","s">>)
               = << <<"t","u","n","-","L","o","c","a","t","i","o","n",","," ","t","u","n","-","L","o","c","a","t","i","o","n","-","P","r","o","x","y",","," ","t","u","n","-","s","e","t","-","c","o","o","k","i","e",","," ","t","u","n","-","s","t","a","t","u","s">> >>

\* The string has no scheme or no host: it does not parse as an absolute URL,
\* or it parses to a URL without a host.
LacksSchemeOrHost(u) == ~ParseUrl(u).ok \/ ParseUrl(u).host = <<>>

\* C13: an authenticated non-preflight request whose url parameter cannot be
\* parsed as an absolute URL, a URL without a scheme or without a host
\* included, ends with status 400 and without any forwarded call.
C13_UnparseableUrlEndsWith400 ==
    (Returned /\ auth = "pass" /\ LacksSchemeOrHost(req.url)) =>
        /\ resp.status = 400
        /\ fwd = <<>>

\* C14: a request causes at most one forwarded call and reaches exactly one
\* terminal return: a forwarded call that fails ends the request with status
\* 500 without a second call, a 3xx reply is relayed without a call to the
\* redirect target, nothing happens after the return, and every request
\* received is eventually returned.
C14_OneCallOneReturn ==
    /\ [](Len(fwd) <= 1)
    /\ []((Returned /\ fwd # <<>> /\ originResp.status = 0) => resp.status = 500)
    /\ [](Relayed => (Len(fwd) = 1 /\ fwd[1].url = req.url))
    /\ [][pc = "done" => UNCHANGED <<pc, resp, fwd>>]_vars
    /\ (pc = "received" ~> pc = "done")

\* A 302 reply with a Location relayed after the one forwarded call.
C14_Witness ==
    /\ Relayed
    /\ originResp.status = 302
    /\ HContains(originResp.headers, <<"l","o","c","a","t","i","o","n">>)
    /\ Len(fwd) = 1
    /\ resp.status = 200

\* o is scheme://host or scheme://host:port and nothing else.
IsBareOrigin(o) ==
    \E i \in 2..(Len(o) - 3) :
        /\ SubSeq(o, i, i + 2) = <<":","/","/">>
        /\ \A j \in 1..(i - 1) : IsSchemeChar(o[j])
        /\ \A j \in (i + 3)..Len(o) : o[j] \notin {"/", "?", "#", "@"}
        /\ \A j \in (i + 3)..Len(o) :
               o[j] = ":" => (j < Len(o) /\ \A k \in (j + 1)..Len(o) : IsDigit(o[k]))

\* C15: for every target URL that parses, the origin parse_origin_url produces
\* and the request uses for redirect resolution is scheme://host[:port] and
\* nothing else: no trailing slash, path, query, fragment or user-info.
C15_OriginIsBare ==
    pc \in {"forwarding", "done"} /\ fwd # <<>> => IsBareOrigin(frame.origin_url)

\* The names the proxy itself writes into a relayed response, besides the
\* Access-Control-* ones.
ProxyWrittenNames ==
    { <<"c","a","c","h","e","-","c","o","n","t","r","o","l">>, <<"p","r","a","g","m","a">>, <<"e","x","p","i","r","e","s">>, <<"t","u","n","-","s","t","a","t","u","s">>, <<"t","u","n","-","s","e","t","-","c","o","o","k","i","e">>,
      <<"t","u","n","-","l","o","c","a","t","i","o","n">>, <<"t","u","n","-","l","o","c","a","t","i","o","n","-","p","r","o","x","y">> }

\* The origin header is neither access-control-*, set-cookie nor location.
IsOtherHeader(n) ==
    ~HasPrefix(n, <<"a","c","c","e","s","s","-","c","o","n","t","r","o","l","-">>) /\ n # <<"s","e","t","-","c","o","o","k","i","e">> /\ n # <<"l","o","c","a","t","i","o","n">>

\* C16 as stated: every origin header whose name is not access-control-*, not
\* set-cookie and not location reaches the client under the same name with the
\* same values, as many as the origin sent.
C16_AllOtherHeadersPass ==
    Relayed =>
        \A n \in HNames(originResp.headers) :
            IsOtherHeader(n) => HValues(resp.headers, n) = HValues(originResp.headers, n)

\* C16: every origin header whose name is not access-control-*, not set-cookie,
\* not location and not a name the proxy itself writes (cache-control, pragma,
\* expires, tun-status, tun-set-cookie, tun-location, tun-location-proxy)
\* reaches the client under the same name with the same values, as many as the
\* origin sent.
C16_UnwrittenHeadersPass ==
    Relayed =>
        \A n \in HNames(originResp.headers) :
            (IsOtherHeader(n) /\ n \notin ProxyWrittenNames) =>
                HValues(resp.headers, n) = HValues(originResp.headers, n)

\* A redirect reply with a header of several values next to headers the proxy
\* renames, drops and overrides.
C16_Witness ==
    /\ Relayed
    /\ originResp.status = 302
    /\ Len(HValues(originResp.headers, <<"x","-","c","u","s","t","o","m">>)) >= 2
    /\ HContains(originResp.headers, <<"c","o","n","t","e","n","t","-","t","y","p","e">>)
    /\ HContains(originResp.headers, <<"c","a","c","h","e","-","c","o","n","t","r","o","l">>)
    /\ HContains(originResp.headers, <<"s","e","t","-","c","o","o","k","i","e">>)
    /\ HValues(resp.headers, <<"x","-","c","u","s","t","o","m">>) = HValues(originResp.headers, <<"x","-","c","u","s","t","o","m">>)

\* C17: for an origin reply with a status outside [300, 400) the headers after
\* modify_location equal the headers copy_response_headers produced, and no
\* tun-Location or tun-Location-Proxy header is added.
C17_RewriteOnlyOnRedirect ==
    (Relayed /\ ~(originResp.status >= 300 /\ originResp.status < 400)) =>
        \E copied \in {copy_response_headers(originResp.headers, EmptyHeaders, originResp.status)} :
            /\ modify_location(copied, frame.origin_url) = copied
            /\ HValues(resp.headers, <<"t","u","n","-","l","o","c","a","t","i","o","n">>) = HValues(originResp.headers, <<"t","u","n","-","l","o","c","a","t","i","o","n">>)
            /\ ~HContains(resp.headers, <<"t","u","n","-","l","o","c","a","t","i","o","n","-","p","r","o","x","y">>)

\* C18: for the origin O of a request and a non-empty Location value L,
\* resolving the resolved location again against O yields the same location:
\* the resolved value is a full URL and is left unchanged.
C18_ResolutionIdempotent ==
    (Relayed /\ HContains(originResp.headers, <<"l","o","c","a","t","i","o","n">>) /\ TrimmedLocation # <<>>) =>
        \E resolved \in {resolve_location(TrimmedLocation, frame.origin_url)} :
            /\ HValues(resp.headers, <<"t","u","n","-","l","o","c","a","t","i","o","n">>) = <<resolved>>
            /\ HasPrefix(resolved, <<"h","t","t","p",":","/","/">>) \/ HasPrefix(resolved, <<"h","t","t","p","s",":","/","/">>)
            /\ resolve_location(resolved, frame.origin_url) = resolved

\* A protocol-relative Location resolved against an https target.
C18_Witness ==
    /\ Relayed
    /\ req.url = <<"h","t","t","p","s",":","/","/","u","s","e","r",":","p","w","@","h",".","i","o",":","8","4","4","3","/","p","#","f","r","a","g">>
    /\ TrimmedLocation = <<"/","/","o",".","i","o","/","p","?","q","=","1","&","r">>
    /\ HValues(resp.headers, <<"t","u","n","-","l","o","c","a","t","i","o","n">>) = << <<"h","t","t","p","s",":","/","/","o",".","i","o","/","p","?","q","=","1","&","r">> >>

\* C19: the forwarded call of an authenticated non-OPTIONS request has the
\* method of the inbound request, for any method the endpoint accepts.
C19_MethodPreserved ==
    (fwd # <<>> /\ req.method # "OPTIONS") => fwd[1].method = req.method

\* C20: a client response carries tun-status if and only if the origin status
\* was in [300, 400), and then with exactly one value, the origin's status
\* code, whatever headers the origin itself sent.
C20_TunStatusOnlyFromProxy ==
    Relayed =>
        IF originResp.status >= 300 /\ originResp.status < 400
        THEN HValues(resp.headers, <<"t","u","n","-","s","t","a","t","u","s">>) = << DecimalOf(originResp.status) >>
        ELSE ~HContains(resp.headers, <<"t","u","n","-","s","t","a","t","u","s">>)

====
